---- MODULE Spec2Model ----
(***************************************************************************)
(* Model of scripts/generate_changelog.py: the commit classifier           *)
(* (CONV_PATTERN, parse_commit), the grouper (group_commits), the three    *)
(* renderers, the file merge (prepend_to_file) and the main pipeline.      *)
(*                                                                         *)
(* A Python str is modelled as a sequence of one-character strings, so     *)
(* that the regular expressions, split/strip/join and slicing are computed *)
(* character by character.  "NUL" and "SOH" stand for the characters \x00  *)
(* and \x01 (FIELD_SEP, RECORD_SEP).  None is the empty sequence <<>> and  *)
(* a present value x is <<x>>.                                             *)
(***************************************************************************)
EXTENDS Integers, Sequences, FiniteSets, TLC

VARIABLES
    pc,          \* position of main(): "start", "resolve", "fetch", "filter", "format", "write", "done"
    args,        \* the argparse namespace of the run
    from_ref,    \* main's local from_ref (None until resolved)
    fetched,     \* what get_commits returned (None before the call)
    commits,     \* main's local commits
    grouped,     \* the formatter's local grouped (category -> list of parsed commits)
    output,      \* main's local output (the rendered text), None before the formatter ran
    fs,          \* the file at the --output path: None, or <<content>>
    stdout,      \* what was printed to standard output, in order
    stderr,      \* the kinds of the messages printed to standard error, in order
    exit_code,   \* None while running; <<0>> or <<1>> once the process ended
    git_calls,   \* the git subcommands run so far, in order
    commit,      \* classifier run: the raw commit given to parse_commit
    shape,       \* classifier run: how the subject was written (its parts)
    parsed,      \* classifier run: parse_commit's result, None before the call
    origin,      \* <<f>>, f being the file (None or <<content>>) before the run or the first call
    existing,    \* writer run: the file as prepend_to_file found it at its last call
    merged       \* writer run: the new_content of every call so far, most recent first

vars ==
    <<pc, args, from_ref, fetched, commits, grouped, output, fs, stdout, stderr,
      exit_code, git_calls, commit, shape, parsed, origin, existing, merged>>

(***************************************************************************)
(* Bounds of the model.                                                    *)
(***************************************************************************)
MaxCommits == 3
MaxPrepends == 3

(***************************************************************************)
(* Text literals.                                                          *)
(***************************************************************************)
S_feat == <<"f", "e", "a", "t">>
S_fix == <<"f", "i", "x">>
S_docs == <<"d", "o", "c", "s">>
S_refactor == <<"r", "e", "f", "a", "c", "t", "o", "r">>
S_style == <<"s", "t", "y", "l", "e">>
S_perf == <<"p", "e", "r", "f">>
S_test == <<"t", "e", "s", "t">>
S_chore == <<"c", "h", "o", "r", "e">>
S_ci == <<"c", "i">>
S_build == <<"b", "u", "i", "l", "d">>
S_revert == <<"r", "e", "v", "e", "r", "t">>
S_deprecate == <<"d", "e", "p", "r", "e", "c", "a", "t", "e">>
S_wip == <<"w", "i", "p">>
S_Feat == <<"F", "e", "a", "t">>
S_api == <<"a", "p", "i">>
S_x == <<"x">>
S_details == <<"d", "e", "t", "a", "i", "l", "s">>
S_breaking_desc ==
    <<"B", "R", "E", "A", "K", "I", "N", "G", " ", "C", "H", "A", "N", "G", "E", " ", "y">>
S_breaking_body ==
    <<"n", "o", "t", "e", "\n", "B", "R", "E", "A", "K", "I", "N", "G", " ", "C", "H", "A",
      "N", "G", "E", ":", " ", "a", "p", "i">>
BREAKING_CHANGE ==
    <<"B", "R", "E", "A", "K", "I", "N", "G", " ", "C", "H", "A", "N", "G", "E">>
S_BreakingChanges ==
    <<"B", "r", "e", "a", "k", "i", "n", "g", " ", "C", "h", "a", "n", "g", "e", "s">>
S_Added == <<"A", "d", "d", "e", "d">>
S_Fixed == <<"F", "i", "x", "e", "d">>
S_Changed == <<"C", "h", "a", "n", "g", "e", "d">>
S_Deprecated == <<"D", "e", "p", "r", "e", "c", "a", "t", "e", "d">>
S_Removed == <<"R", "e", "m", "o", "v", "e", "d">>
S_Performance == <<"P", "e", "r", "f", "o", "r", "m", "a", "n", "c", "e">>
S_Security == <<"S", "e", "c", "u", "r", "i", "t", "y">>
S_Documentation == <<"D", "o", "c", "u", "m", "e", "n", "t", "a", "t", "i", "o", "n">>
S_Tests == <<"T", "e", "s", "t", "s">>
S_Maintenance == <<"M", "a", "i", "n", "t", "e", "n", "a", "n", "c", "e">>
S_Other == <<"O", "t", "h", "e", "r">>
S_HEAD == <<"H", "E", "A", "D">>
S_v1 == <<"v", "1", ".", "0">>
S_v2 == <<"v", "2", ".", "0">>
S_today == <<"2", "0", "2", "6", "-", "0", "1", "-", "0", "1">>
S_changelog_h1 == <<"#", " ", "C", "h", "a", "n", "g", "e", "l", "o", "g", "\n", "\n">>
S_hash1 == <<"a", "1", "b", "2", "c", "3", "d", "4", "e", "5">>
S_hash2 == <<"b", "2", "c", "3", "d", "4", "e", "5", "f", "6">>
S_hash3 == <<"c", "3", "d", "4", "e", "5", "f", "6", "a", "7">>
S_hash4 == <<"d", "4", "e", "5", "f", "6", "a", "7", "b", "8">>
S_hash5 == <<"e", "5", "f", "6", "a", "7", "b", "8", "c", "9">>
S_ann == <<"A", "n", "n">>
S_bob == <<"B", "o", "b">>
S_date1 == <<"2", "0", "2", "4", "-", "0", "5", "-", "0", "2", " ", "1", "0", ":", "0", "0">>
S_date2 == <<"2", "0", "2", "4", "-", "0", "5", "-", "0", "1", " ", "0", "9", ":", "3", "0">>
S_body5 ==
    <<"B", "R", "E", "A", "K", "I", "N", "G", " ", "C", "H", "A", "N", "G", "E", ":", " ",
      "v", "2">>
S_raw1 == <<"M", "e", "r", "g", "e", " ", "b", "r", "a", "n", "c", "h", " ", "d", "e", "v">>
S_raw2 == <<"f", "e", "a", "t", " ", "a", "d", "d", " ", "l", "o", "g", "i", "n">>
S_raw3 == <<"f", "e", "a", "t", "(", "a", "p", "i", ":", " ", "x">>
S_raw4 == <<":", " ", "x">>
S_raw5 == <<"f", "e", "a", "t", ":">>
S_raw6 == <<"f", "e", "a", "t", "!", "x", ":", " ", "y">>
S_raw7 == <<"f", "e", "a", "t", " ", "(", "a", "p", "i", ")", ":", " ", "x">>
S_raw9 == <<"f", "i", "x", "(", "a", "p", "i", ")", "!", " ", "x">>
S_title_old ==
    <<"#", " ", "T", "i", "t", "l", "e", "\n", "\n", "O", "l", "d", " ", "c", "o", "n",
      "t", "e", "n", "t">>
S_new_entry == <<"N", "e", "w", " ", "e", "n", "t", "r", "y">>
S_intro_title ==
    <<"I", "n", "t", "r", "o", "\n", "#", " ", "T", "i", "t", "l", "e", "\n", "\n", "O",
      "l", "d", " ", "c", "o", "n", "t", "e", "n", "t">>
S_plain == <<"O", "l", "d", " ", "c", "o", "n", "t", "e", "n", "t", "\n">>
S_title_only == <<"#", " ", "T", "i", "t", "l", "e">>
S_add_login == <<"a", "d", "d", " ", "l", "o", "g", "i", "n">>
S_crash_on_null == <<"c", "r", "a", "s", "h", " ", "o", "n", " ", "n", "u", "l", "l">>
S_bump_deps == <<"b", "u", "m", "p", " ", "d", "e", "p", "s">>
S_new_api == <<"n", "e", "w", " ", "a", "p", "i">>
S_a_colon_b == <<"a", ":", " ", "b">>
S_title_nl_old ==
    <<"#", " ", "T", "i", "t", "l", "e", "\n", "O", "l", "d", " ", "c", "o", "n", "t", "e",
      "n", "t", "\n">>
S_changelog_path == <<"C", "H", "A", "N", "G", "E", "L", "O", "G", ".", "m", "d">>
S_raw8 ==
    <<"B", "R", "E", "A", "K", "I", "N", "G", " ", "C", "H", "A", "N", "G", "E", " ", "x">>

(***************************************************************************)
(* Python str and Optional helpers.                                        *)
(***************************************************************************)
None == <<>>
Some(x) == <<x>>
\* Python truthiness of an Optional[str]: None and "" are falsy.
Truthy(o) == o # None /\ o[1] # <<>>

Lower ==
    {"a", "b", "c", "d", "e", "f", "g", "h", "i", "j", "k", "l", "m",
     "n", "o", "p", "q", "r", "s", "t", "u", "v", "w", "x", "y", "z"}
Upper ==
    {"A", "B", "C", "D", "E", "F", "G", "H", "I", "J", "K", "L", "M",
     "N", "O", "P", "Q", "R", "S", "T", "U", "V", "W", "X", "Y", "Z"}
Digit == {"0", "1", "2", "3", "4", "5", "6", "7", "8", "9"}
\* \w of the re module
WordChars == Lower \cup Upper \cup Digit \cup {"_"}
\* \s of the re module, and what str.strip() removes
Space == {" ", "\t", "\n"}

MinOf(S) == CHOOSE x \in S : \A y \in S : x <= y
MaxOf(S) == CHOOSE x \in S : \A y \in S : x >= y

\* s[i:] starts with sub (1-based i)
StartsAt(sub, s, i) ==
    /\ i + Len(sub) - 1 <= Len(s)
    /\ \A k \in 1..Len(sub) : s[i + k - 1] = sub[k]

StartsWith(sub, s) == StartsAt(sub, s, 1)

\* sub in s
Contains(sub, s) == \E i \in 1..(Len(s) - Len(sub) + 1) : StartsAt(sub, s, i)

\* s[from:] with a 0-based from, and s[:to]
Drop(s, n) == SubSeq(s, n + 1, Len(s))
Take(s, n) == SubSeq(s, 1, IF n < Len(s) THEN n ELSE Len(s))

\* s.strip()
Strip(s) ==
    LET keep == {i \in 1..Len(s) : s[i] \notin Space}
    IN  IF keep = {} THEN <<>> ELSE SubSeq(s, MinOf(keep), MaxOf(keep))

\* s.split(sep, maxsplit) for a one-character sep; maxsplit < 0 is no limit
RECURSIVE SplitMax(_, _, _)
SplitMax(s, sep, maxsplit) ==
    LET at == {i \in 1..Len(s) : s[i] = sep}
    IN  IF at = {} \/ maxsplit = 0
        THEN <<s>>
        ELSE <<SubSeq(s, 1, MinOf(at) - 1)>>
                 \o SplitMax(Drop(s, MinOf(at)), sep, maxsplit - 1)

Split(s, sep) == SplitMax(s, sep, -1)

\* sep.join(parts)
RECURSIVE Join(_, _)
Join(parts, sep) ==
    IF parts = <<>> THEN <<>>
    ELSE IF Len(parts) = 1 THEN parts[1]
    ELSE parts[1] \o sep \o Join(Tail(parts), sep)

\* the concatenation of a list of texts (an f-string)
F(parts) == Join(parts, <<>>)

(***************************************************************************)
(* Classifier.                                                             *)
(***************************************************************************)
FIELD_SEP == "NUL"
RECORD_SEP == "SOH"

\* the type -> category table, as (key, value) pairs
CONVENTIONAL_MAP ==
    { <<S_feat, "Added">>, <<S_fix, "Fixed">>, <<S_docs, "Documentation">>,
      <<S_refactor, "Changed">>, <<S_style, "Changed">>, <<S_perf, "Performance">>,
      <<S_test, "Tests">>, <<S_chore, "Maintenance">>, <<S_ci, "Maintenance">>,
      <<S_build, "Maintenance">>, <<S_revert, "Removed">>,
      <<S_deprecate, "Deprecated">> }

\* CONVENTIONAL_MAP.get(key, default)
MapGet(key, default) ==
    IF \E p \in CONVENTIONAL_MAP : p[1] = key
    THEN (CHOOSE p \in CONVENTIONAL_MAP : p[1] = key)[2]
    ELSE default

CATEGORY_ORDER ==
    << "Breaking Changes", "Added", "Fixed", "Changed", "Deprecated", "Removed",
       "Performance", "Security", "Documentation", "Tests", "Maintenance", "Other" >>

Categories == {CATEGORY_ORDER[i] : i \in 1..Len(CATEGORY_ORDER)}

\* the characters of a category name, as the f-strings of the renderers write it
CategoryText(cat) ==
    CASE cat = "Breaking Changes" -> S_BreakingChanges
      [] cat = "Added" -> S_Added
      [] cat = "Fixed" -> S_Fixed
      [] cat = "Changed" -> S_Changed
      [] cat = "Deprecated" -> S_Deprecated
      [] cat = "Removed" -> S_Removed
      [] cat = "Performance" -> S_Performance
      [] cat = "Security" -> S_Security
      [] cat = "Documentation" -> S_Documentation
      [] cat = "Tests" -> S_Tests
      [] cat = "Maintenance" -> S_Maintenance
      [] cat = "Other" -> S_Other

NoMatch == [matched |-> FALSE, type |-> <<>>, scope |-> None, bang |-> FALSE, desc |-> <<>>]

\* CONV_PATTERN.match(s):
\*   ^(?P<type>\w+)(?:\((?P<scope>[^)]*)\))?(?P<bang>!)?:\s*(?P<desc>.+)$
\* \w+ takes the longest run of word characters (no shorter one can be followed by
\* "(", "!" or ":"); [^)]* stops at the first ")"; \s* is greedy and gives back
\* only what .+ needs; "." matches no newline and "$" matches at the end or before
\* a final newline.
CONV_PATTERN(s) ==
    LET n == Len(s)
        tEnd == CHOOSE k \in 0..n :
                    /\ \A i \in 1..k : s[i] \in WordChars
                    /\ (k = n \/ s[k + 1] \notin WordChars)
        closes == {j \in (tEnd + 2)..n : s[j] = ")"}
        hasScope == tEnd < n /\ s[tEnd + 1] = "(" /\ closes # {}
        sEnd == IF hasScope THEN MinOf(closes) ELSE tEnd
        hasBang == sEnd < n /\ s[sEnd + 1] = "!"
        bEnd == IF hasBang THEN sEnd + 1 ELSE sEnd
        hasColon == bEnd < n /\ s[bEnd + 1] = ":"
        cEnd == bEnd + 1
        dEnd == IF n >= 1 /\ s[n] = "\n" THEN n - 1 ELSE n
        starts == {d \in (cEnd + 1)..dEnd :
                      /\ \A i \in (cEnd + 1)..(d - 1) : s[i] \in Space
                      /\ \A i \in d..dEnd : s[i] # "\n"}
    IN  IF tEnd >= 1 /\ hasColon /\ starts # {}
        THEN [matched |-> TRUE,
              type |-> SubSeq(s, 1, tEnd),
              scope |-> IF hasScope THEN Some(SubSeq(s, tEnd + 2, sEnd - 1)) ELSE None,
              bang |-> hasBang,
              desc |-> SubSeq(s, MaxOf(starts), dEnd)]
        ELSE NoMatch

Classified(c, category, scope, description) ==
    [hash |-> c.hash, subject |-> c.subject, author |-> c.author, date |-> c.date,
     body |-> c.body, category |-> category, scope |-> scope,
     description |-> description]

\* IsBreaking, were the body not searched for the marker
IsBreaking_SubjectOnly(m, subject, body) ==
    m.bang \/ Contains(BREAKING_CHANGE, subject)

\* the override test of parse_commit
IsBreaking(m, subject, body) ==
    m.bang \/ Contains(BREAKING_CHANGE, subject) \/ Contains(BREAKING_CHANGE, body)

\* parse_commit, were the marker override applied to unmatched subjects too
parse_commit_OverrideUnmatched(c) ==
    LET m == CONV_PATTERN(c.subject)
        breaking == IsBreaking(m, c.subject, c.body)
    IN  IF m.matched
        THEN Classified(c,
                 IF breaking THEN "Breaking Changes" ELSE MapGet(m.type, "Other"),
                 IF Truthy(m.scope) THEN m.scope[1] ELSE <<>>,
                 m.desc)
        ELSE Classified(c, IF breaking THEN "Breaking Changes" ELSE "Other",
                        <<>>, c.subject)

parse_commit(c) ==
    LET m == CONV_PATTERN(c.subject)
    IN  IF m.matched
        THEN Classified(c,
                 IF IsBreaking(m, c.subject, c.body)
                 THEN "Breaking Changes"
                 ELSE MapGet(m.type, "Other"),
                 IF Truthy(m.scope) THEN m.scope[1] ELSE <<>>,
                 m.desc)
        ELSE Classified(c, "Other", <<>>, c.subject)

\* group_commits, were each commit inserted at the front of its list
RECURSIVE group_commits_Insert0(_)
group_commits_Insert0(cs) ==
    IF cs = <<>> THEN <<>>
    ELSE LET g == group_commits_Insert0(SubSeq(cs, 1, Len(cs) - 1))
             p == parse_commit(cs[Len(cs)])
         IN  IF p.category \in DOMAIN g
             THEN [g EXCEPT ![p.category] = <<p>> \o @]
             ELSE [k \in DOMAIN g \cup {p.category} |->
                      IF k = p.category THEN <<p>> ELSE g[k]]

\* group_commits: a defaultdict(list), here the mapping over the keys it holds
RECURSIVE group_commits(_)
group_commits(cs) ==
    IF cs = <<>> THEN <<>>
    ELSE LET g == group_commits(SubSeq(cs, 1, Len(cs) - 1))
             p == parse_commit(cs[Len(cs)])
         IN  IF p.category \in DOMAIN g
             THEN [g EXCEPT ![p.category] = Append(@, p)]
             ELSE [k \in DOMAIN g \cup {p.category} |->
                      IF k = p.category THEN <<p>> ELSE g[k]]

(***************************************************************************)
(* Renderers.                                                              *)
(***************************************************************************)
\* datetime.now().strftime("%Y-%m-%d"): the day of the run
today == S_today

\* one bullet of format_keepachangelog
KeepBullet(c) ==
    F(<< <<"-", " ">>,
         IF c.scope # <<>> THEN F(<< <<"*", "*">>, c.scope, <<"*", "*", ":", " ">> >>)
                           ELSE <<>>,
         c.description, <<" ", "(">>, c.hash, <<")">> >>)

\* one bullet of format_conventional
ConvBullet(c) ==
    F(<< <<"*", " ">>,
         IF c.scope # <<>> THEN F(<< <<"*", "*">>, c.scope, <<":", "*", "*", " ">> >>)
                           ELSE <<>>,
         c.description, <<" ", "(", "[">>, c.hash, <<"]", ")">> >>)

\* the "### {cat}\n" heading line of both category renderers
SectionHeading(cat) == F(<< <<"#", "#", "#", " ">>, CategoryText(cat), <<"\n">> >>)

\* KeepSections, were `if cat in grouped` missing (a defaultdict gives [] for a
\* category it does not hold)
RECURSIVE KeepSections_NoMembership(_, _)
KeepSections_NoMembership(g, i) ==
    IF i > Len(CATEGORY_ORDER) THEN <<>>
    ELSE LET cat == CATEGORY_ORDER[i]
             members == IF cat \in DOMAIN g THEN g[cat] ELSE <<>>
         IN  <<SectionHeading(cat)>>
                 \o [j \in 1..Len(members) |-> KeepBullet(members[j])]
                 \o << <<>> >>
                 \o KeepSections_NoMembership(g, i + 1)

\* the loop over CATEGORY_ORDER of format_keepachangelog, from index i on
RECURSIVE KeepSections(_, _)
KeepSections(g, i) ==
    IF i > Len(CATEGORY_ORDER) THEN <<>>
    ELSE LET cat == CATEGORY_ORDER[i]
         IN  (IF cat \in DOMAIN g
              THEN <<SectionHeading(cat)>>
                       \o [j \in 1..Len(g[cat]) |-> KeepBullet(g[cat][j])]
                       \o << <<>> >>
              ELSE <<>>)
                 \o KeepSections(g, i + 1)

\* the loop over CATEGORY_ORDER of format_conventional, from index i on
RECURSIVE ConvSections(_, _)
ConvSections(g, i) ==
    IF i > Len(CATEGORY_ORDER) THEN <<>>
    ELSE LET cat == CATEGORY_ORDER[i]
         IN  (IF cat \in DOMAIN g
              THEN <<SectionHeading(cat)>>
                       \o [j \in 1..Len(g[cat]) |-> ConvBullet(g[cat][j])]
                       \o << <<>> >>
              ELSE <<>>)
                 \o ConvSections(g, i + 1)

format_keepachangelog(cs, from, to) ==
    LET g == group_commits(cs)
        header == F(<< <<"#", "#", " ", "[">>, to, <<"]", " ", "-", " ">>, today, <<"\n">> >>)
    IN  Join(<<header>> \o KeepSections(g, 1), <<"\n">>)

format_conventional(cs, from, to) ==
    LET g == group_commits(cs)
        header == F(<< <<"#", " ">>, to, <<" ", "(">>, today, <<")", "\n">> >>)
    IN  Join(<<header>> \o ConvSections(g, 1), <<"\n">>)

\* the code point order of the characters a date holds ("-" < "0" < ... < "9")
Ord(ch) ==
    CASE ch = "-" -> 45 [] ch = "0" -> 48 [] ch = "1" -> 49 [] ch = "2" -> 50
      [] ch = "3" -> 51 [] ch = "4" -> 52 [] ch = "5" -> 53 [] ch = "6" -> 54
      [] ch = "7" -> 55 [] ch = "8" -> 56 [] ch = "9" -> 57 [] OTHER -> 32

\* a < b for str
StrLess(a, b) ==
    \E k \in 1..(Len(a) + 1) :
        /\ k <= Len(b)
        /\ \A i \in 1..(k - 1) : a[i] = b[i]
        /\ (k = Len(a) + 1 \/ Ord(a[k]) < Ord(b[k]))

\* sorted(keys, reverse=True)
RECURSIVE SortedDesc(_)
SortedDesc(keys) ==
    IF keys = {} THEN <<>>
    ELSE LET top == CHOOSE k \in keys : \A o \in keys : o = k \/ StrLess(o, k)
         IN  <<top>> \o SortedDesc(keys \ {top})

GroupedBullet(c) ==
    F(<< <<"-", " ">>, c.subject, <<" ", "(">>, c.hash, <<",", " ">>, c.author, <<")">> >>)

\* the loop over the dates of format_grouped
RECURSIVE DateSections(_, _)
DateSections(cs, dates) ==
    IF dates = <<>> THEN <<>>
    ELSE LET of == SelectSeq(cs, LAMBDA c : c.date = Head(dates))
         IN  <<F(<< <<"#", "#", " ">>, Head(dates), <<"\n">> >>)>>
                 \o [j \in 1..Len(of) |-> GroupedBullet(of[j])]
                 \o << <<>> >>
                 \o DateSections(cs, Tail(dates))

format_grouped(cs, from, to) ==
    LET header ==
            F(<< <<"#", " ", "C", "h", "a", "n", "g", "e", "s", ":", " ">>, from,
                 <<" ", "-", ">", " ">>, to, <<"\n">> >>)
        dates == SortedDesc({cs[i].date : i \in 1..Len(cs)})
    IN  Join(<<header>> \o DateSections(cs, dates), <<"\n">>)

Formats == {"keepachangelog", "conventional", "grouped"}

\* FORMATTERS[name](commits, from_ref, label)
FORMATTERS(name, cs, from, to) ==
    CASE name = "keepachangelog" -> format_keepachangelog(cs, from, to)
      [] name = "conventional" -> format_conventional(cs, from, to)
      [] name = "grouped" -> format_grouped(cs, from, to)

(***************************************************************************)
(* Writer.                                                                 *)
(***************************************************************************)
\* re.search(r"^# .+\n", text).end(), or 0 when there is no match.  The pattern is
\* compiled without re.MULTILINE, so "^" matches at the start of the text only.
H1MatchEnd(text) ==
    LET nls == {i \in 1..Len(text) : text[i] = "\n"}
    IN  IF StartsWith(<<"#", " ">>, text) /\ nls # {} /\ MinOf(nls) >= 4
        THEN MinOf(nls)
        ELSE 0

\* the while loop of prepend_to_file: insert_pos moves over the newlines at it
RECURSIVE SkipNewlines(_, _)
SkipNewlines(text, insert_pos) ==
    IF insert_pos < Len(text) /\ text[insert_pos + 1] = "\n"
    THEN SkipNewlines(text, insert_pos + 1)
    ELSE insert_pos

\* prepend_to_file, were insert_pos taken from h1_match.start()
prepend_to_file_AtMatchStart(file, new_content) ==
    IF file = None
    THEN S_changelog_h1 \o new_content \o <<"\n">>
    ELSE LET text == file[1]
         IN  IF H1MatchEnd(text) > 0
             THEN LET insert_pos == SkipNewlines(text, 0)
                  IN  Take(text, insert_pos) \o <<"\n">> \o new_content
                          \o <<"\n", "\n">> \o Drop(text, insert_pos)
             ELSE new_content \o <<"\n", "\n">> \o text

\* the content of the file after prepend_to_file(filepath, new_content), file
\* being None when os.path.exists(filepath) is false
prepend_to_file(file, new_content) ==
    IF file = None
    THEN S_changelog_h1 \o new_content \o <<"\n">>
    ELSE LET text == file[1]
             end == H1MatchEnd(text)
         IN  IF end > 0
             THEN LET insert_pos == SkipNewlines(text, end)
                  IN  Take(text, insert_pos) \o <<"\n">> \o new_content
                          \o <<"\n", "\n">> \o Drop(text, insert_pos)
             ELSE new_content \o <<"\n", "\n">> \o text

(***************************************************************************)
(* Record source: git, as run_git sees it.                                 *)
(***************************************************************************)
HashLen == 8
DateLen == 10

\* How a subject is written: type[(scope)][!]:<sep>description, or free text.
ConvShape(type, scope, bang, sep, desc) ==
    [kind |-> "conv", type |-> type, scope |-> scope, bang |-> bang, sep |-> sep,
     desc |-> desc, raw |-> <<>>]
RawShape(text) ==
    [kind |-> "raw", type |-> <<>>, scope |-> None, bang |-> FALSE, sep |-> <<>>,
     desc |-> <<>>, raw |-> text]

\* the subject line a shape stands for
Subject(sh) ==
    IF sh.kind = "raw" THEN sh.raw
    ELSE F(<< sh.type,
              IF sh.scope # None THEN F(<< <<"(">>, sh.scope[1], <<")">> >>) ELSE <<>>,
              IF sh.bang THEN <<"!">> ELSE <<>>,
              <<":">>, sh.sep, sh.desc >>)

\* The commits a repository of the model may hold: full hash, subject, author name,
\* author date (%ai) and body of each.
Pool ==
    << [hash |-> S_hash1, shape |-> ConvShape(S_feat, None, FALSE, <<" ">>, S_add_login),
        author |-> S_ann, date |-> S_date1, body |-> <<>>],
       [hash |-> S_hash2,
        shape |-> ConvShape(S_fix, Some(S_api), TRUE, <<" ">>, S_crash_on_null),
        author |-> S_bob, date |-> S_date1, body |-> <<>>],
       [hash |-> S_hash3, shape |-> ConvShape(S_chore, None, FALSE, <<" ">>, S_bump_deps),
        author |-> S_ann, date |-> S_date2, body |-> <<>>],
       [hash |-> S_hash4, shape |-> RawShape(S_raw1),
        author |-> S_bob, date |-> S_date2, body |-> S_details],
       [hash |-> S_hash5, shape |-> ConvShape(S_docs, None, FALSE, <<" ">>, S_new_api),
        author |-> S_ann, date |-> S_date1, body |-> S_body5] >>

\* The pool is in log order (most recent first); a range selects up to MaxCommits of
\* its commits, which git prints in that order.
Histories ==
    {h \in UNION {[1..n -> 1..Len(Pool)] : n \in 0..MaxCommits} :
        \A i, j \in 1..Len(h) : i < j => h[i] < h[j]}

\* what `git log --pretty=format:%H<NUL>%s<NUL>%an<NUL>%ai<NUL>%b<SOH>` prints for a
\* history: one record per commit, a newline between records
GitLogOutput(h) ==
    Join([i \in 1..Len(h) |->
              LET p == Pool[h[i]]
              IN  F(<< p.hash, <<FIELD_SEP>>, Subject(p.shape), <<FIELD_SEP>>, p.author,
                       <<FIELD_SEP>>, p.date, <<FIELD_SEP>>, p.body, <<RECORD_SEP>> >>)],
         <<"\n">>)

\* run_git: None when git fails, else stdout.strip()
run_git(ok, out) == IF ok THEN Some(Strip(out)) ELSE None

\* the results `git log` may give for a range
GitLogResults == {run_git(FALSE, <<>>)} \cup {run_git(TRUE, GitLogOutput(h)) : h \in Histories}

\* the loop of get_commits over the records
RECURSIVE ParseRecords(_)
ParseRecords(records) ==
    IF records = <<>> THEN <<>>
    ELSE LET record == Strip(Head(records))
             parts == SplitMax(record, FIELD_SEP, 4)
         IN  (IF record # <<>> /\ Len(parts) = 5
              THEN << [hash |-> Take(parts[1], HashLen), subject |-> parts[2],
                       author |-> parts[3], date |-> Take(parts[4], DateLen),
                       body |-> Strip(parts[5])] >>
              ELSE <<>>)
                 \o ParseRecords(Tail(records))

\* get_commits, given what run_git returned for the log command
get_commits(result) ==
    IF ~Truthy(result) THEN <<>> ELSE ParseRecords(Split(result[1], RECORD_SEP))

(***************************************************************************)
(* main.                                                                   *)
(***************************************************************************)
\* --exclude-types values of the model: the tokens meant, and the argument text
ExcludeOptions ==
    { [tokens |-> <<S_chore>>, text |-> S_chore],
      [tokens |-> <<S_fix, S_chore>>, text |-> F(<<S_fix, <<",", " ">>, S_chore>>)] }

\* the argparse namespaces of the model
ArgSets ==
    { [from_ref |-> r.from_ref, to_ref |-> S_HEAD, format |-> f, output |-> o,
       version_label |-> r.version_label, prepend |-> p, no_merges |-> r.no_merges,
       exclude_types |-> e] :
        r \in { [from_ref |-> Some(S_v1), version_label |-> None, no_merges |-> FALSE],
                [from_ref |-> None, version_label |-> Some(S_v2), no_merges |-> TRUE] },
        f \in Formats,
        o \in {None, Some(S_changelog_path)},
        p \in BOOLEAN,
        e \in {None} \cup {Some(x.text) : x \in ExcludeOptions} }

\* the files the --output path may hold before the run
ExistingFiles == {S_title_old, S_intro_title, S_plain, S_title_only, S_title_nl_old}

\* the test of line 226, were the --output test not negated
PrependWithoutOutput_NotNegated(a) == a.prepend /\ Truthy(a.output)

\* line 226: --prepend without --output
PrependWithoutOutput(a) == a.prepend /\ ~Truthy(a.output)

\* the test of lines 241 and 255, were it `commits is None` (never so for a list)
NoCommits_IsNone(cs) == FALSE

\* lines 241 and 255: `not commits`
NoCommits(cs) == cs = <<>>

\* line 246: the set of excluded type names
ExcludedTypes(text) ==
    LET toks == Split(text, ",")
    IN  {Strip(toks[i]) : i \in 1..Len(toks)}

\* the filter loop, were commits with the "!" marker kept
FilterCommits_KeepBang(cs, excluded) ==
    SelectSeq(cs, LAMBDA c :
        LET m == CONV_PATTERN(c.subject)
        IN  ~(m.matched /\ m.type \in excluded /\ ~m.bang))

\* lines 247-253: the filter loop
FilterCommits(cs, excluded) ==
    SelectSeq(cs, LAMBDA c :
        LET m == CONV_PATTERN(c.subject)
        IN  ~(m.matched /\ m.type \in excluded))

Exit(code, msg) ==
    /\ exit_code' = Some(code)
    /\ stderr' = Append(stderr, msg)
    /\ pc' = "done"

\* lines 226-228
CheckArgs ==
    /\ pc = "start"
    /\ IF PrependWithoutOutput(args)
       THEN Exit(1, "Error: --prepend requires --output.")
       ELSE pc' = "resolve" /\ UNCHANGED <<exit_code, stderr>>
    /\ UNCHANGED <<args, from_ref, commits, fetched, grouped, output, fs, stdout, git_calls>>

\* lines 230-238
ResolveFrom ==
    /\ pc = "resolve"
    /\ IF Truthy(args.from_ref)
       THEN /\ from_ref' = args.from_ref
            /\ pc' = "fetch"
            /\ UNCHANGED <<git_calls, exit_code, stderr>>
       ELSE \E tag \in {run_git(FALSE, <<>>), run_git(TRUE, S_v1)} :
                IF Truthy(tag)
                THEN /\ from_ref' = tag
                     /\ git_calls' = Append(git_calls, "describe")
                     /\ pc' = "fetch"
                     /\ UNCHANGED <<exit_code, stderr>>
                ELSE \E first \in {run_git(FALSE, <<>>), run_git(TRUE, S_hash1)} :
                         /\ from_ref' = first
                         /\ git_calls' = git_calls \o <<"describe", "rev-list">>
                         /\ IF Truthy(first)
                            THEN /\ stderr' = Append(stderr, "No tags found, using first commit")
                                 /\ pc' = "fetch"
                                 /\ UNCHANGED exit_code
                            ELSE Exit(1, "Error: No tags or commits found.")
    /\ UNCHANGED <<args, commits, fetched, grouped, output, fs, stdout>>

\* lines 240-243
FetchCommits ==
    /\ pc = "fetch"
    /\ \E result \in GitLogResults :
           /\ commits' = get_commits(result)
           /\ fetched' = Some(get_commits(result))
    /\ git_calls' = Append(git_calls, IF args.no_merges THEN "log --no-merges" ELSE "log")
    /\ IF NoCommits(commits')
       THEN Exit(0, "No commits found in range.")
       ELSE pc' = "filter" /\ UNCHANGED <<exit_code, stderr>>
    /\ UNCHANGED <<args, from_ref, grouped, output, fs, stdout>>

\* lines 245-262
FilterByType ==
    /\ pc = "filter"
    /\ commits' = IF Truthy(args.exclude_types)
                  THEN FilterCommits(commits, ExcludedTypes(args.exclude_types[1]))
                  ELSE commits
    /\ IF NoCommits(commits')
       THEN Exit(0, "No commits remaining after filtering.")
       ELSE /\ stderr' = Append(stderr, "Processing commits")
            /\ pc' = "format"
            /\ UNCHANGED exit_code
    /\ UNCHANGED <<args, from_ref, fetched, grouped, output, fs, stdout, git_calls>>

\* lines 264-266
Format ==
    /\ pc = "format"
    /\ LET label == IF Truthy(args.version_label) THEN args.version_label[1]
                                                  ELSE args.to_ref
       IN  output' = Some(FORMATTERS(args.format, commits, from_ref[1], label))
    /\ grouped' = IF args.format \in {"keepachangelog", "conventional"}
                  THEN Some(group_commits(commits))
                  ELSE None
    /\ pc' = "write"
    /\ UNCHANGED <<args, from_ref, commits, fetched, fs, stdout, stderr, exit_code, git_calls>>

\* lines 268-277, and the return of main
Write ==
    /\ pc = "write"
    /\ IF Truthy(args.output)
       THEN IF args.prepend
            THEN /\ fs' = Some(prepend_to_file(fs, output[1]))
                 /\ stderr' = Append(stderr, "Changelog prepended")
                 /\ UNCHANGED stdout
            ELSE /\ fs' = output
                 /\ stderr' = Append(stderr, "Changelog written")
                 /\ UNCHANGED stdout
       ELSE /\ stdout' = Append(stdout, output[1] \o <<"\n">>)
            /\ UNCHANGED <<fs, stderr>>
    /\ exit_code' = Some(0)
    /\ pc' = "done"
    /\ UNCHANGED <<args, from_ref, commits, fetched, grouped, output, git_calls>>

MainVars ==
    <<pc, args, from_ref, commits, fetched, grouped, output, stdout, stderr, exit_code,
      git_calls>>
ClassifierVars == <<commit, shape, parsed>>
WriterVars == <<origin, existing, merged>>

MainIdle ==
    /\ pc = "idle" /\ args = None /\ from_ref = None /\ commits = <<>> /\ fetched = None
    /\ grouped = None /\ output = None /\ stdout = <<>> /\ stderr = <<>>
    /\ exit_code = None /\ git_calls = <<>>
ClassifierIdle == commit = None /\ shape = None /\ parsed = None
WriterIdle == origin = None /\ existing = None /\ merged = <<>>

\* the raw commit get_commits makes of a pool entry
RawCommit(i) == get_commits(run_git(TRUE, GitLogOutput(<<i>>)))[1]

\* One run of main: the arguments and the file at the output path are given.
Init ==
    /\ pc = "start"
    /\ args \in ArgSets
    /\ fs \in {None} \cup {Some(S_title_old)}
    /\ from_ref = None /\ commits = <<>> /\ fetched = None /\ grouped = None
    /\ output = None /\ stdout = <<>> /\ stderr = <<>> /\ exit_code = None
    /\ git_calls = <<>>
    /\ ClassifierIdle
    /\ origin = <<fs>> /\ existing = None /\ merged = <<>>

Next ==
    \/ CheckArgs /\ UNCHANGED <<ClassifierVars, WriterVars>>
    \/ ResolveFrom /\ UNCHANGED <<ClassifierVars, WriterVars>>
    \/ FetchCommits /\ UNCHANGED <<ClassifierVars, WriterVars>>
    \/ FilterByType /\ UNCHANGED <<ClassifierVars, WriterVars>>
    \/ Format /\ UNCHANGED <<ClassifierVars, WriterVars>>
    \/ Write /\ UNCHANGED <<ClassifierVars, WriterVars>>

Spec == Init /\ [][Next]_vars

(***************************************************************************)
(* The classifier alone: parse_commit applied to one commit.               *)
(***************************************************************************)
ParseShapes ==
    {ConvShape(t, s, b, sep, d) :
        t \in {S_feat, S_fix, S_wip, S_Feat, S_chore},
        s \in {None, Some(<<>>), Some(S_api)},
        b \in BOOLEAN,
        sep \in {<<>>, <<" ">>},
        d \in {S_x, S_breaking_desc, S_a_colon_b}}
    \cup {RawShape(r) : r \in {S_raw1, S_raw2, S_raw3, S_raw4, S_raw5, S_raw6,
                               S_raw7, S_raw8, S_raw9}}

ParseBodies == {<<>>, S_details, S_breaking_body}

InitClassifier ==
    /\ \E sh \in ParseShapes, b \in ParseBodies :
           /\ shape = Some(sh)
           /\ commit = Some([hash |-> Take(S_hash1, HashLen), subject |-> Subject(sh),
                             author |-> S_ann, date |-> Take(S_date1, DateLen),
                             body |-> b])
    /\ parsed = None
    /\ MainIdle
    /\ WriterIdle
    /\ fs = None

Classify ==
    /\ commit # None
    /\ parsed = None
    /\ parsed' = Some(parse_commit(commit[1]))
    /\ UNCHANGED <<commit, shape, MainVars, WriterVars, fs>>

NextClassifier == Classify

SpecClassifier == InitClassifier /\ [][NextClassifier]_vars

(***************************************************************************)
(* The writer alone: prepend_to_file called again and again on one path.   *)
(***************************************************************************)
\* what main may pass as new_content (a rendering of each format), and a plain text
Contents ==
    { format_conventional(<<RawCommit(1)>>, S_v1, S_v2),
      format_keepachangelog(<<RawCommit(2)>>, S_v1, S_v2),
      format_grouped(<<RawCommit(3)>>, S_v1, S_v2),
      S_new_entry }

InitWriter ==
    /\ fs \in {None} \cup {Some(f) : f \in ExistingFiles}
    /\ origin = <<fs>>
    /\ existing = None
    /\ merged = <<>>
    /\ MainIdle
    /\ ClassifierIdle

PrependCall ==
    /\ origin # None
    /\ Len(merged) < MaxPrepends
    /\ \E new_content \in Contents :
           /\ fs' = Some(prepend_to_file(fs, new_content))
           /\ merged' = <<new_content>> \o merged
    /\ existing' = <<fs>>
    /\ UNCHANGED <<origin, MainVars, ClassifierVars>>

NextWriter == PrependCall

SpecWriter == InitWriter /\ [][NextWriter]_vars

(***************************************************************************)
(* Properties.                                                             *)
(***************************************************************************)
\* text.split("\n")
Lines(text) == Split(text, "\n")

\* a top-level heading line: "# " followed by text
IsHeadingLine(line) == StartsWith(<<"#", " ">>, line) /\ Len(line) >= 3

\* the number of characters of text up to the end of its line k (newline excluded)
RECURSIVE LineEnd(_, _)
LineEnd(lines, k) ==
    IF k = 1 THEN Len(lines[1]) ELSE LineEnd(lines, k - 1) + 1 + Len(lines[k])

\* the first position >= pos at which sub occurs in s, or 0
FindFrom(sub, s, pos) ==
    LET at == {i \in pos..(Len(s) - Len(sub) + 1) : StartsAt(sub, s, i)}
    IN  IF at = {} THEN 0 ELSE MinOf(at)

\* the texts of parts occur in s one after the other, in the order of parts, from pos on
RECURSIVE InOrder(_, _, _)
InOrder(parts, s, pos) ==
    IF parts = <<>> THEN TRUE
    ELSE LET at == FindFrom(Head(parts), s, pos)
         IN  at > 0 /\ InOrder(Tail(parts), s, at + Len(Head(parts)))

\* C1: merging `New entry` into a file holding `# Title`, a blank line, `Old content`
\* gives the lines `# Title`, blank, `New entry`, blank, `Old content`: one blank line
\* between the blocks.
C1_OneBlankLineBetweenBlocks ==
    (existing = <<Some(S_title_old)>> /\ merged # <<>> /\ Head(merged) = S_new_entry)
        => Lines(fs[1]) =
               << Lines(S_title_old)[1], <<>>, S_new_entry, <<>>, Lines(S_title_old)[3] >>

\* C2: when any line of the existing file is a top-level heading, everything up to the
\* end of the first such line stays at the start of the file and the new content comes
\* after it; the new content comes first only when no line is a heading.
C2_InsertAfterFirstHeadingAnywhere ==
    (existing # None /\ existing[1] # None /\ merged # <<>>)
        => LET old == existing[1][1]
               lines == Lines(old)
               heads == {k \in 1..Len(lines) : IsHeadingLine(lines[k])}
           IN  IF heads # {}
               THEN LET end == LineEnd(lines, MinOf(heads))
                    IN  /\ StartsWith(Take(old, end), fs[1])
                        /\ FindFrom(Head(merged), fs[1], end + 1) > 0
               ELSE StartsWith(Head(merged), fs[1])

\* C3: a commit written type[(scope)][!]: description matches the pattern, and its
\* category is "Breaking Changes" when it has the "!" marker or "BREAKING CHANGE" occurs
\* in its subject or body, and otherwise the table entry of its type ("Other" for a
\* type the table lacks).
C3_BreakingOverride ==
    (parsed # None /\ shape[1].kind = "conv")
        => /\ CONV_PATTERN(commit[1].subject).matched
           /\ parsed[1].category =
                  IF \/ shape[1].bang
                     \/ Contains(BREAKING_CHANGE, commit[1].subject)
                     \/ Contains(BREAKING_CHANGE, commit[1].body)
                  THEN "Breaking Changes"
                  ELSE MapGet(shape[1].type, "Other")

\* a type outside the table, no "!" marker, the marker text in the body only
C3_Witness ==
    /\ parsed # None
    /\ shape[1].kind = "conv" /\ shape[1].type = S_wip /\ ~shape[1].bang
    /\ ~Contains(BREAKING_CHANGE, commit[1].subject)
    /\ Contains(BREAKING_CHANGE, commit[1].body)
    /\ parsed[1].category = "Breaking Changes"

\* C4: a commit whose subject does not match the pattern gets category "Other", an empty
\* scope and its whole subject as description, whatever its body holds.
C4_UnmatchedIsOther ==
    (parsed # None /\ ~CONV_PATTERN(commit[1].subject).matched)
        => /\ parsed[1].category = "Other"
           /\ parsed[1].scope = <<>>
           /\ parsed[1].description = commit[1].subject

\* an unmatched subject, the marker text in subject and body
C4_Witness ==
    /\ parsed # None
    /\ shape[1].kind = "raw"
    /\ ~CONV_PATTERN(commit[1].subject).matched
    /\ Contains(BREAKING_CHANGE, commit[1].subject)
    /\ Contains(BREAKING_CHANGE, commit[1].body)
    /\ parsed[1].category = "Other"

\* the categories of the "### " section headings of a rendering, in order
SectionsOf(text) ==
    LET heads == SelectSeq(Lines(text), LAMBDA l : StartsWith(<<"#", "#", "#", " ">>, l))
    IN  [k \in 1..Len(heads) |-> Drop(heads[k], 4)]

\* the categories that have a commit among cs, in display order
CategoriesPresent(cs) ==
    LET has == SelectSeq(CATEGORY_ORDER,
                   LAMBDA cat : \E i \in 1..Len(cs) : parse_commit(cs[i]).category = cat)
    IN  [k \in 1..Len(has) |-> CategoryText(has[k])]

\* C5: the keepachangelog and conventional renderings hold one "### {category}" section
\* for each category that has a commit, none for the others, in the display order.
C5_SectionsOfPresentCategories ==
    (output # None /\ args.format \in {"keepachangelog", "conventional"})
        => SectionsOf(output[1]) = CategoriesPresent(commits)

\* feat: add login, fix(api)!: crash on null, chore: bump deps with --exclude-types chore
\* in keepachangelog format: Breaking Changes, then Added
C5_Witness ==
    /\ output # None
    /\ args.format = "keepachangelog"
    /\ args.exclude_types = Some(S_chore)
    /\ fetched = Some(<<RawCommit(1), RawCommit(2), RawCommit(3)>>)
    /\ SectionsOf(output[1]) = <<S_BreakingChanges, S_Added>>

\* how the subject of a commit of the pool was written
PoolShape(c) ==
    Pool[CHOOSE i \in 1..Len(Pool) : Take(Pool[i].hash, HashLen) = c.hash].shape

\* the filter of lines 245-253 has run and left commits
Filtered == pc \in {"format", "write"} \/ (pc = "done" /\ output # None)

\* C6: with --exclude-types S the renderer gets the fetched commits, in their order,
\* without those written type[(scope)][!]: description with type in S; free-text
\* subjects stay, and the "!" marker does not keep a commit.
C6_ExcludeByTypeOnly ==
    (Filtered /\ args.exclude_types # None)
        => \E o \in ExcludeOptions :
               /\ args.exclude_types = Some(o.text)
               /\ commits =
                      SelectSeq(fetched[1], LAMBDA c :
                          ~(/\ PoolShape(c).kind = "conv"
                            /\ \E k \in 1..Len(o.tokens) : o.tokens[k] = PoolShape(c).type))

\* fix(api)! dropped by "fix, chore", the free-text subject kept
C6_Witness ==
    /\ Filtered
    /\ args.exclude_types # None
    /\ fetched = Some(<<RawCommit(1), RawCommit(2), RawCommit(4)>>)
    /\ commits = <<RawCommit(1), RawCommit(4)>>

\* C7: a run with --prepend and no --output ends after the first step with exit code 1,
\* before any git command, with nothing rendered or printed and the file as it was.
C7_PrependNeedsOutput ==
    (args.prepend /\ ~Truthy(args.output) /\ pc # "start")
        => /\ pc = "done"
           /\ exit_code = Some(1)
           /\ git_calls = <<>>
           /\ fetched = None
           /\ output = None
           /\ stdout = <<>>
           /\ fs = origin[1]
           /\ stderr = <<"Error: --prepend requires --output.">>

C7_Witness ==
    /\ pc = "done"
    /\ args.prepend /\ args.output = None
    /\ args.exclude_types # None /\ args.format = "grouped"
    /\ fs # None
    /\ exit_code = Some(1)

\* C8: once the commit set is empty, be it as fetched or after the type filter, the run
\* has ended with exit code 0 after an informational message, nothing was rendered or
\* printed and the file is as it was.
C8_EmptySetNoOutput ==
    (fetched # None /\ commits = <<>>)
        => /\ pc = "done"
           /\ exit_code = Some(0)
           /\ output = None
           /\ stdout = <<>>
           /\ fs = origin[1]
           /\ stderr[Len(stderr)] =
                  IF fetched[1] = <<>> THEN "No commits found in range."
                                       ELSE "No commits remaining after filtering."

\* every fetched commit removed by the filter, an output file given
C8_Witness ==
    /\ pc = "done"
    /\ fetched # None /\ fetched[1] # <<>> /\ commits = <<>>
    /\ Truthy(args.output)
    /\ exit_code = Some(0)

\* C9: the grouping holds each commit once, under its one category of the closed set, and
\* each category's list is the commits of that category in their input order.
C9_StablePartition ==
    grouped # None
        => LET g == grouped[1]
               all == [i \in 1..Len(commits) |-> parse_commit(commits[i])]
               RECURSIVE Total(_)
               Total(cats) ==
                   IF cats = {} THEN 0
                   ELSE LET cat == CHOOSE x \in cats : TRUE
                        IN  Len(g[cat]) + Total(cats \ {cat})
           IN  /\ DOMAIN g \subseteq Categories
               /\ \A cat \in DOMAIN g :
                      g[cat] = SelectSeq(all, LAMBDA p : p.category = cat)
               /\ \A i \in 1..Len(all) : all[i].category \in DOMAIN g
               /\ Total(DOMAIN g) = Len(commits)

\* two commits in one category and a third in another
C9_Witness ==
    /\ grouped # None
    /\ Len(commits) = 3
    /\ "Breaking Changes" \in DOMAIN grouped[1]
    /\ Len(grouped[1]["Breaking Changes"]) = 2
    /\ "Other" \in DOMAIN grouped[1]

\* C10: from a missing file on, after every call the file starts with the line
\* "# Changelog" and holds below it every content merged so far, whole, the most
\* recently merged first.
C10_SynthesizedHeadingStays ==
    (origin = <<None>> /\ merged # <<>>)
        => LET h1 == Take(S_changelog_h1, Len(S_changelog_h1) - 1)
           IN  /\ StartsWith(h1, fs[1])
               /\ InOrder(merged, fs[1], Len(h1) + 1)

\* three merges, the last two contents starting with a top-level heading
C10_Witness ==
    /\ origin = <<None>>
    /\ Len(merged) = 3
    /\ StartsWith(<<"#", " ">>, merged[1])
    /\ StartsWith(<<"#", " ">>, merged[2])
    /\ merged[1] # merged[2]
====
